---- MODULE Spec2Model ----
(***************************************************************************)
(* Verification model of the youtube-transcript-rag ingestion and ranking  *)
(* core:                                                                   *)
(*   - BackgroundProcessor (app/services/background_processor.py)          *)
(*   - TranscriptService.fetch_multiple_transcripts                        *)
(*   - process_source_background, retry_source                             *)
(*     (app/routes/transcript_routes.py)                                   *)
(*   - PineconeService._deduplicate_chunks / _group_and_sort_chunks        *)
(*   - EmbeddingService.chunk_transcript                                   *)
(* Threads of one kind are anonymous and run the same code, so the model   *)
(* counts how many of them stand at each program point.                    *)
(***************************************************************************)
EXTENDS Integers, Sequences, FiniteSets, TLC

\* ------------------------------------------------------------- bounds
\* number of tasks handed to submit_task
MaxTasks == 2
\* number of start() calls that get past the `if self.running` test
MaxStarts == 2
\* number of stop() calls that get past the `if not self.running` test
MaxStops == 1
\* length of a video_ids list
MaxVideos == 3
\* length of a video_ids list longer than the executor has threads
MaxBatch == 6
\* number of request threads calling submit_background_task at first
MaxCallers == 3
\* number of raw matches of a query
MaxMatches == 4
\* number of segments of a transcript
MaxSegments == 3
\* largest chunk_size
MaxChunkSize == 3

\* --------------------------------------------------- program constants
\* get_background_processor: BackgroundProcessor(num_workers=2)
num_workers == 2
\* Config.MAX_THREADS, the ThreadPoolExecutor's max_workers
MAX_THREADS == 5

VideoIds == {"v1", "v2"}
\* overlap_threshold = 0.8, as the fraction 4/5
OverlapThresholdNum == 4
OverlapThresholdDen == 5
\* the least number of chunks _deduplicate_chunks keeps when it can
MinKept == 3

Tasks == 1..MaxTasks
\* the shutdown signal stop() puts on the queue (Python None)
NoneTask == 0

VARIABLES
  \* ---- BackgroundProcessor
  running,      \* self.running
  task_queue,   \* self.task_queue, a FIFO of task ids and NoneTask
  workers,      \* len(self.workers)
  spawned,      \* threads created so far by start()
  at_loop,      \* worker threads at `while self.running`
  at_get,       \* worker threads blocked in task_queue.get(timeout=1)
  executing,    \* executing[t]: worker threads inside task_func of task t
  starting,     \* start() calls between the running test and `self.running = True`
  stop_sig,     \* stop() calls between the running test and `self.running = False`
  stop_join,    \* stop() calls in the join loop, before self.workers.clear()
  stopCalls,    \* stop() calls that got past the running test
  tstate,       \* tstate[t]: submit_task progress: new, checked, accepted, rejected
  invoked,      \* invoked[t]: how often task_func of t was called
  outcome,      \* outcome[t]: none, ok (returned), raised
  \* ---- TranscriptService.fetch_multiple_transcripts
  video_ids,    \* the argument, a list of video ids
  fpc,          \* idle, call, collect (in the as_completed loop), returned, raised
  fut,          \* fut[i]: the future of video_ids[i]: pending, running, ok, err
  yielded,      \* indices of the futures as_completed has handed out
  results,      \* results list
  errors,       \* errors list
  \* ---- process_source_background
  src_video_ids,       \* the video_ids argument of the run
  ipc,                 \* position of the run
  transcript_results,  \* what fetch_multiple_transcripts returned
  idx,                 \* position of the store loop in transcript_results['results']
  storage_results,     \* statuses store_transcript returned: stored, exists
  storage_errors,      \* video ids whose store_transcript raised
  vstore,              \* video ids that have vectors in the Pinecone index
  status,              \* the source's status in the sources table
  status_calls,        \* update_source_status calls of the run: value and ok/raised
  late_step,           \* a fetch or store step ran after a status call
  \* ---- PineconeService.query_videos, lines 146-151
  matches,      \* results['matches'], the raw matches of the index query
  rpc,          \* idle, raw, ranked, again, raw_shuffled, shuffled
  deduped,      \* what _deduplicate_chunks returned
  ranked,       \* what _group_and_sort_chunks returned: the result of the query
  ranked_again, \* the same two steps applied to ranked, or to shuffled
  shuffled,     \* the matches of the query in another order, a second query's answer
  \* ---- BackgroundProcessor, observed
  queued_at_stop,  \* the tasks that were on the queue when a stop() ran line 62
  start_noop,      \* some start() found the pool running and returned (line 43)
  old_worker,      \* where one worker that was alive when a stop() ran line 62 is
  observing,       \* whether queued_at_stop and old_worker are recorded in this run
  \* ---- EmbeddingService.chunk_transcript
  segments,        \* the argument, a list of transcript segments
  chunk_size,      \* the argument
  cpc,             \* idle, call, loop, returned, raised
  chunk_list,      \* chunks, the list chunk_transcript builds
  current_chunk,   \* current_chunk
  current_length,  \* current_length
  seg_i,           \* position of the for loop in segments
  \* ---- retry_source
  retry_pc,        \* position of the request
  retry_results,   \* its transcript_results
  retry_idx,       \* position of its store loop
  \* ---- PineconeService.store_transcript, two ingestion tasks
  st_video,        \* st_video[k]: the video_id task k stores
  st_pc,           \* st_pc[k]: idle, call, embed, exists, stored, raised
  st_saw,          \* st_saw[k]: what video_exists found: none, exists, absent, error
  index_has,       \* the video ids that have vectors in the index
  upserts,         \* upserts[v]: index.upsert calls made for video v
  \* ---- get_background_processor / submit_background_task, request threads
  gp,              \* _background_processor: 0 is None, else the instance
  created,         \* BackgroundProcessor instances constructed
  prunning,        \* prunning[p]: self.running of instance p
  call_pc,         \* call_pc[c]: position of caller c
  call_proc        \* call_proc[c]: the instance get_background_processor returned

poolVars == <<running, task_queue, workers, spawned, at_loop, at_get, executing,
              starting, stop_sig, stop_join, stopCalls, tstate, invoked, outcome>>

fetchVars == <<video_ids, fpc, fut, yielded, results, errors>>

ingestVars == <<src_video_ids, ipc, transcript_results, idx, storage_results,
                storage_errors, vstore, status, status_calls, late_step>>

rankVars == <<matches, rpc, deduped, ranked, ranked_again, shuffled>>

poolObs == <<queued_at_stop, start_noop, old_worker, observing>>

chunkVars == <<segments, chunk_size, cpc, chunk_list, current_chunk, current_length, seg_i>>

retryVars == <<retry_pc, retry_results, retry_idx>>

storeVars == <<st_video, st_pc, st_saw, index_has, upserts>>

lazyVars == <<gp, created, prunning, call_pc, call_proc>>

vars == <<poolVars, fetchVars, ingestVars, rankVars, poolObs, chunkVars, retryVars,
          storeVars, lazyVars>>

\* what the operations of one component leave alone
nonPoolVars == <<fetchVars, ingestVars, rankVars, chunkVars, retryVars, storeVars, lazyVars>>
nonFetchVars == <<poolVars, ingestVars, rankVars, poolObs, chunkVars, retryVars,
                  storeVars, lazyVars>>
nonIngestVars == <<poolVars, fetchVars, rankVars, poolObs, chunkVars, retryVars,
                   storeVars, lazyVars>>
nonRankVars == <<poolVars, fetchVars, ingestVars, poolObs, chunkVars, retryVars,
                 storeVars, lazyVars>>
nonChunkVars == <<poolVars, fetchVars, ingestVars, rankVars, poolObs, retryVars,
                  storeVars, lazyVars>>
nonStoreVars == <<poolVars, fetchVars, ingestVars, rankVars, poolObs, chunkVars, retryVars,
                  lazyVars>>
nonLazyVars == <<poolVars, fetchVars, ingestVars, rankVars, poolObs, chunkVars, retryVars,
                 storeVars>>

\* ------------------------------------------------------- helpers
RECURSIVE SumOver(_, _)
SumOver(f, S) ==
  IF S = {} THEN 0
  ELSE LET x == CHOOSE y \in S : TRUE IN f[x] + SumOver(f, S \ {x})

RECURSIVE Repeat(_, _)
Repeat(x, n) == IF n = 0 THEN <<>> ELSE <<x>> \o Repeat(x, n - 1)

QueueItems == {task_queue[i] : i \in 1..Len(task_queue)}

\* threads that have not left _worker_loop
LiveWorkers == at_loop + at_get + SumOver(executing, Tasks)

\* some stop() has executed `self.running = False`
everStopped == stopCalls - stop_sig > 0

\* ------------------------------------------------------- __init__
\* where the live workers are: at line 113, in get() at line 116, or in the
\* function of task t at line 132
WorkerPlaces ==
  LET places == {<<"loop", 0>> : x \in {y \in {1} : at_loop > 0}}
                  \cup {<<"get", 0>> : x \in {y \in {1} : at_get > 0}}
                  \cup {<<"task", t>> : t \in {u \in Tasks : executing[u] > 0}}
  IN  IF places = {} THEN {<<"none", 0>>} ELSE places

\* one of the n workers at place from moves to place to: it is the observed
\* worker, or another one
ObserveMove(from, n, to) ==
  \E observed \in BOOLEAN :
    /\ observed => old_worker = from
    /\ ~observed => (old_worker # from \/ n > 1)
    /\ old_worker' = IF observed THEN to ELSE old_worker
    /\ UNCHANGED <<queued_at_stop, start_noop, observing>>

\* a run of the pool in which the observations of stop() are recorded
ObservedPoolInit ==
  /\ running = FALSE
  /\ task_queue = <<>>
  /\ workers = 0
  /\ spawned = 0
  /\ at_loop = 0
  /\ at_get = 0
  /\ executing = [t \in Tasks |-> 0]
  /\ starting = 0
  /\ stop_sig = 0
  /\ stop_join = 0
  /\ stopCalls = 0
  /\ tstate = [t \in Tasks |-> "new"]
  /\ invoked = [t \in Tasks |-> 0]
  /\ outcome = [t \in Tasks |-> "none"]
  /\ queued_at_stop = {}
  /\ start_noop = FALSE
  /\ old_worker = <<"none", 0>>
  /\ observing = TRUE

PoolInit ==
  /\ running = FALSE
  /\ task_queue = <<>>
  /\ workers = 0
  /\ spawned = 0
  /\ at_loop = 0
  /\ at_get = 0
  /\ executing = [t \in Tasks |-> 0]
  /\ starting = 0
  /\ stop_sig = 0
  /\ stop_join = 0
  /\ stopCalls = 0
  /\ tstate = [t \in Tasks |-> "new"]
  /\ invoked = [t \in Tasks |-> 0]
  /\ outcome = [t \in Tasks |-> "none"]
  /\ queued_at_stop = {}
  /\ start_noop = FALSE
  /\ old_worker = <<"none", 0>>
  /\ observing = FALSE

\* ------------------------------------------------------- start()
\* start() without the return of lines 41-43: a running pool gets new threads
StartAlreadyRunning_Respawn ==
  /\ running
  /\ start_noop' = TRUE
  /\ at_loop' = at_loop + num_workers
  /\ workers' = workers + num_workers
  /\ spawned' = spawned + num_workers
  /\ spawned + num_workers <= MaxStarts * num_workers
  /\ UNCHANGED <<running, task_queue, at_get, executing, starting, stop_sig, stop_join,
                 stopCalls, tstate, invoked, outcome>>
  /\ UNCHANGED <<queued_at_stop, old_worker, observing>>
  /\ UNCHANGED nonPoolVars

\* line 41: the pool runs already, start() returns at once
StartAlreadyRunning ==
  /\ running
  /\ start_noop' = TRUE
  /\ UNCHANGED poolVars
  /\ UNCHANGED <<queued_at_stop, old_worker, observing>>
  /\ UNCHANGED nonPoolVars

\* line 41: the pool does not run, the caller goes on to line 45
StartCheck ==
  /\ ~running
  /\ spawned + (starting + 1) * num_workers <= MaxStarts * num_workers
  /\ starting' = starting + 1
  /\ UNCHANGED <<running, task_queue, workers, spawned, at_loop, at_get, executing,
                 stop_sig, stop_join, stopCalls, tstate, invoked, outcome>>
  /\ UNCHANGED poolObs
  /\ UNCHANGED nonPoolVars

\* lines 45-54: set the flag, create and start num_workers threads
StartSpawn ==
  /\ starting > 0
  /\ starting' = starting - 1
  /\ running' = TRUE
  /\ at_loop' = at_loop + num_workers
  /\ workers' = workers + num_workers
  /\ spawned' = spawned + num_workers
  /\ UNCHANGED <<task_queue, at_get, executing, stop_sig, stop_join, stopCalls,
                 tstate, invoked, outcome>>
  /\ UNCHANGED poolObs
  /\ UNCHANGED nonPoolVars

\* ------------------------------------------------------- stop()
\* line 58: the pool does not run, stop() returns at once
StopNotRunning ==
  /\ ~running
  /\ UNCHANGED poolVars
  /\ UNCHANGED poolObs
  /\ UNCHANGED nonPoolVars

\* line 58: the pool runs, the caller goes on to line 62
StopCheck ==
  /\ running
  /\ stopCalls < MaxStops
  /\ stopCalls' = stopCalls + 1
  /\ stop_sig' = stop_sig + 1
  /\ UNCHANGED <<running, task_queue, workers, spawned, at_loop, at_get, executing,
                 starting, stop_join, tstate, invoked, outcome>>
  /\ UNCHANGED poolObs
  /\ UNCHANGED nonPoolVars

\* lines 62-66: clear the flag, put one None per worker
StopSignal ==
  /\ stop_sig > 0
  /\ stop_sig' = stop_sig - 1
  /\ stop_join' = stop_join + 1
  /\ running' = FALSE
  /\ task_queue' = task_queue \o Repeat(NoneTask, num_workers)
  /\ queued_at_stop' = IF observing THEN queued_at_stop \cup (QueueItems \ {NoneTask})
                       ELSE queued_at_stop
  /\ old_worker' \in IF observing THEN WorkerPlaces ELSE {old_worker}
  /\ UNCHANGED <<workers, spawned, at_loop, at_get, executing, starting, stopCalls,
                 tstate, invoked, outcome, start_noop, observing>>
  /\ UNCHANGED nonPoolVars

\* lines 69-73: every join(timeout=5) has returned, with the worker gone or
\* not; the list is cleared and stop() returns
StopJoinClear ==
  /\ stop_join > 0
  /\ stop_join' = stop_join - 1
  /\ workers' = 0
  /\ UNCHANGED <<running, task_queue, spawned, at_loop, at_get, executing, starting,
                 stop_sig, stopCalls, tstate, invoked, outcome>>
  /\ UNCHANGED poolObs
  /\ UNCHANGED nonPoolVars

\* ------------------------------------------------------- submit_task()
\* submit_task without the running test of lines 87-89
SubmitCheck_NoRunningTest(t) ==
  /\ tstate[t] = "new"
  /\ \A u \in Tasks : u < t => tstate[u] # "new"
  /\ tstate' = [tstate EXCEPT ![t] = "checked"]
  /\ UNCHANGED <<running, task_queue, workers, spawned, at_loop, at_get, executing,
                 starting, stop_sig, stop_join, stopCalls, invoked, outcome>>
  /\ UNCHANGED poolObs
  /\ UNCHANGED nonPoolVars

\* lines 87-89: the running test; False is returned if the pool does not run
SubmitCheck(t) ==
  /\ tstate[t] = "new"
  /\ \A u \in Tasks : u < t => tstate[u] # "new"
  /\ tstate' = [tstate EXCEPT ![t] = IF running THEN "checked" ELSE "rejected"]
  /\ UNCHANGED <<running, task_queue, workers, spawned, at_loop, at_get, executing,
                 starting, stop_sig, stop_join, stopCalls, invoked, outcome>>
  /\ UNCHANGED poolObs
  /\ UNCHANGED nonPoolVars

\* lines 91-100: build the task, put it on the queue, return True
SubmitPut(t) ==
  /\ tstate[t] = "checked"
  /\ tstate' = [tstate EXCEPT ![t] = "accepted"]
  /\ task_queue' = Append(task_queue, t)
  /\ UNCHANGED <<running, workers, spawned, at_loop, at_get, executing,
                 starting, stop_sig, stop_join, stopCalls, invoked, outcome>>
  /\ UNCHANGED poolObs
  /\ UNCHANGED nonPoolVars

\* ------------------------------------------------------- _worker_loop()
\* line 113: `while self.running`, true: go on to get()
WorkerLoopEnter ==
  /\ at_loop > 0
  /\ running
  /\ at_loop' = at_loop - 1
  /\ at_get' = at_get + 1
  /\ UNCHANGED <<running, task_queue, workers, spawned, executing,
                 starting, stop_sig, stop_join, stopCalls, tstate, invoked, outcome>>
  /\ ObserveMove(<<"loop", 0>>, at_loop, <<"get", 0>>)
  /\ UNCHANGED nonPoolVars

\* line 113: `while self.running`, false: the thread leaves the loop (line 146)
WorkerLoopExit ==
  /\ at_loop > 0
  /\ ~running
  /\ at_loop' = at_loop - 1
  /\ UNCHANGED <<running, task_queue, workers, spawned, at_get, executing,
                 starting, stop_sig, stop_join, stopCalls, tstate, invoked, outcome>>
  /\ ObserveMove(<<"loop", 0>>, at_loop, <<"exited", 0>>)
  /\ UNCHANGED nonPoolVars

\* line 116 and 140-142: get() times out on an empty queue, back to line 113
WorkerGetTimeout ==
  /\ at_get > 0
  /\ task_queue = <<>>
  /\ at_get' = at_get - 1
  /\ at_loop' = at_loop + 1
  /\ UNCHANGED <<running, task_queue, workers, spawned, executing,
                 starting, stop_sig, stop_join, stopCalls, tstate, invoked, outcome>>
  /\ ObserveMove(<<"get", 0>>, at_get, <<"loop", 0>>)
  /\ UNCHANGED nonPoolVars

\* lines 116-121: get() returns None: break, the thread leaves the loop
WorkerGetNone ==
  /\ at_get > 0
  /\ task_queue # <<>>
  /\ Head(task_queue) = NoneTask
  /\ task_queue' = Tail(task_queue)
  /\ at_get' = at_get - 1
  /\ UNCHANGED <<running, workers, spawned, at_loop, executing,
                 starting, stop_sig, stop_join, stopCalls, tstate, invoked, outcome>>
  /\ ObserveMove(<<"get", 0>>, at_get, <<"exited", 0>>)
  /\ UNCHANGED nonPoolVars

\* lines 116-132: get() returns a task and the worker calls its function
WorkerGetTask ==
  /\ at_get > 0
  /\ task_queue # <<>>
  /\ Head(task_queue) # NoneTask
  /\ LET t == Head(task_queue) IN
       /\ executing' = [executing EXCEPT ![t] = @ + 1]
       /\ invoked' = [invoked EXCEPT ![t] = @ + 1]
  /\ task_queue' = Tail(task_queue)
  /\ at_get' = at_get - 1
  /\ UNCHANGED <<running, workers, spawned, at_loop,
                 starting, stop_sig, stop_join, stopCalls, tstate, outcome>>
  /\ ObserveMove(<<"get", 0>>, at_get, <<"task", Head(task_queue)>>)
  /\ UNCHANGED nonPoolVars

\* lines 132-134, 137-138: task_func returns; back to line 113
TaskReturn(t) ==
  /\ executing[t] > 0
  /\ executing' = [executing EXCEPT ![t] = @ - 1]
  /\ outcome' = [outcome EXCEPT ![t] = "ok"]
  /\ at_loop' = at_loop + 1
  /\ UNCHANGED <<running, task_queue, workers, spawned, at_get,
                 starting, stop_sig, stop_join, stopCalls, tstate, invoked>>
  /\ ObserveMove(<<"task", t>>, executing[t], <<"loop", 0>>)
  /\ UNCHANGED nonPoolVars

\* lines 135-138: task_func raises; `except Exception` logs it; back to line 113
TaskRaise(t) ==
  /\ executing[t] > 0
  /\ executing' = [executing EXCEPT ![t] = @ - 1]
  /\ outcome' = [outcome EXCEPT ![t] = "raised"]
  /\ at_loop' = at_loop + 1
  /\ UNCHANGED <<running, task_queue, workers, spawned, at_get,
                 starting, stop_sig, stop_join, stopCalls, tstate, invoked>>
  /\ ObserveMove(<<"task", t>>, executing[t], <<"loop", 0>>)
  /\ UNCHANGED nonPoolVars

WorkerStep ==
  \/ WorkerLoopEnter
  \/ WorkerLoopExit
  \/ WorkerGetTimeout
  \/ WorkerGetNone
  \/ WorkerGetTask

TaskEnd == \E t \in Tasks : TaskReturn(t) \/ TaskRaise(t)

PoolNext ==
  \/ StartAlreadyRunning
  \/ StartCheck
  \/ StartSpawn
  \/ StopNotRunning
  \/ StopCheck
  \/ StopSignal
  \/ StopJoinClear
  \/ \E t \in Tasks : SubmitCheck(t)
  \/ \E t \in Tasks : SubmitPut(t)
  \/ WorkerStep
  \/ TaskEnd

\* =====================================================================
\* TranscriptService.fetch_multiple_transcripts
\* =====================================================================
Indices(vids) == 1..Len(vids)

\* all lists of at most n video ids
VideoLists(n) == UNION {[1..k -> VideoIds] : k \in 0..n}

FetchIdle ==
  /\ video_ids = <<>>
  /\ fpc = "idle"
  /\ fut = <<>>
  /\ yielded = {}
  /\ results = <<>>
  /\ errors = <<>>

\* a call with some list of video ids; lines 71-72
FetchInit ==
  /\ video_ids \in VideoLists(MaxVideos)
  /\ fpc = "call"
  /\ fut = <<>>
  /\ yielded = {}
  /\ results = <<>>
  /\ errors = <<>>

\* a call with a list of up to MaxBatch entries; which ids they are plays no
\* part in how the executor schedules them
FetchBatchInit ==
  /\ video_ids \in {[i \in 1..n |-> "v1"] : n \in 0..MaxBatch}
  /\ fpc = "call"
  /\ fut = <<>>
  /\ yielded = {}
  /\ results = <<>>
  /\ errors = <<>>

\* lines 74-78: the executor is created and one fetch submitted per list entry
FetchSubmitAll ==
  /\ fpc = "call"
  /\ fpc' = "collect"
  /\ fut' = [i \in Indices(video_ids) |-> "pending"]
  /\ UNCHANGED <<video_ids, yielded, results, errors>>
  /\ UNCHANGED nonFetchVars

InFlight == Cardinality({i \in DOMAIN fut : fut[i] = "running"})

\* an executor that starts a thread for every queued fetch
FetchBegin_Unbounded(i) ==
  /\ fpc = "collect"
  /\ fut[i] = "pending"
  /\ fut' = [fut EXCEPT ![i] = "running"]
  /\ UNCHANGED <<video_ids, fpc, yielded, results, errors>>
  /\ UNCHANGED nonFetchVars

\* an executor thread (at most max_workers of them) takes a queued fetch
FetchBegin(i) ==
  /\ fpc = "collect"
  /\ fut[i] = "pending"
  /\ InFlight < MAX_THREADS
  /\ fut' = [fut EXCEPT ![i] = "running"]
  /\ UNCHANGED <<video_ids, fpc, yielded, results, errors>>
  /\ UNCHANGED nonFetchVars

\* fetch_transcript returns its dict, lines 53-58
FetchSucceed(i) ==
  /\ fpc = "collect"
  /\ fut[i] = "running"
  /\ fut' = [fut EXCEPT ![i] = "ok"]
  /\ UNCHANGED <<video_ids, fpc, yielded, results, errors>>
  /\ UNCHANGED nonFetchVars

\* fetch_transcript raises Exception, lines 60-65
FetchFail(i) ==
  /\ fpc = "collect"
  /\ fut[i] = "running"
  /\ fut' = [fut EXCEPT ![i] = "err"]
  /\ UNCHANGED <<video_ids, fpc, yielded, results, errors>>
  /\ UNCHANGED nonFetchVars

\* lines 80-85: as_completed hands out a finished future, its result is appended
CollectResult(i) ==
  /\ fpc = "collect"
  /\ i \notin yielded
  /\ fut[i] = "ok"
  /\ yielded' = yielded \cup {i}
  /\ results' = Append(results, [video_id |-> video_ids[i]])
  /\ UNCHANGED <<video_ids, fpc, fut, errors>>
  /\ UNCHANGED nonFetchVars

\* the except clause of lines 86-88 left out: future.result() re-raises
CollectError_Propagate(i) ==
  /\ fpc = "collect"
  /\ i \notin yielded
  /\ fut[i] = "err"
  /\ fpc' = "raised"
  /\ UNCHANGED <<video_ids, fut, yielded, results, errors>>
  /\ UNCHANGED nonFetchVars

\* lines 80-83, 86-88: future.result() re-raises, the except clause records it
CollectError(i) ==
  /\ fpc = "collect"
  /\ i \notin yielded
  /\ fut[i] = "err"
  /\ yielded' = yielded \cup {i}
  /\ errors' = Append(errors, [video_id |-> video_ids[i], error |-> "Exception"])
  /\ UNCHANGED <<video_ids, fpc, fut, results>>
  /\ UNCHANGED nonFetchVars

\* lines 80, 89-91: as_completed is exhausted, the with block shuts the
\* executor down (wait=True) and the two lists are returned
FetchReturn ==
  /\ fpc = "collect"
  /\ yielded = Indices(video_ids)
  /\ fpc' = "returned"
  /\ UNCHANGED <<video_ids, fut, yielded, results, errors>>
  /\ UNCHANGED nonFetchVars

FetchNext ==
  \/ FetchSubmitAll
  \/ \E i \in DOMAIN fut : FetchBegin(i)
  \/ \E i \in DOMAIN fut : FetchSucceed(i)
  \/ \E i \in DOMAIN fut : FetchFail(i)
  \/ \E i \in DOMAIN fut : CollectResult(i)
  \/ \E i \in DOMAIN fut : CollectError(i)
  \/ FetchReturn

\* injective enumerations of a finite set
Perms(S) == {p \in [1..Cardinality(S) -> S] : \A a, b \in DOMAIN p : a # b => p[a] # p[b]}

\* every value fetch_multiple_transcripts(vids) can return: each entry lands
\* in results or in errors, each list in completion order
FetchOutcomes(vids) ==
  UNION {
    { [results |-> [k \in DOMAIN p |-> [video_id |-> vids[p[k]]]],
       errors  |-> [k \in DOMAIN q |-> [video_id |-> vids[q[k]], error |-> "Exception"]]]
      : p \in Perms(ok), q \in Perms(Indices(vids) \ ok) }
    : ok \in SUBSET Indices(vids) }

\* =====================================================================
\* process_source_background (one run) with PineconeService.store_transcript
\* and update_source_status
\* =====================================================================
IngestIdle ==
  /\ src_video_ids = <<>>
  /\ ipc = "idle"
  /\ transcript_results = [results |-> <<>>, errors |-> <<>>]
  /\ idx = 0
  /\ storage_results = <<>>
  /\ storage_errors = <<>>
  /\ vstore = {}
  /\ status = "processing"
  /\ status_calls = <<>>
  /\ late_step = FALSE

\* process_videos created the source (status processing) with a non-empty
\* video list; other sources may have stored some of the videos before
IngestInit ==
  /\ src_video_ids \in VideoLists(MaxVideos) \ {<<>>}
  /\ ipc = "init"
  /\ transcript_results = [results |-> <<>>, errors |-> <<>>]
  /\ idx = 0
  /\ storage_results = <<>>
  /\ storage_errors = <<>>
  /\ vstore \in SUBSET VideoIds
  /\ status = "processing"
  /\ status_calls = <<>>
  /\ late_step = FALSE

\* the values the run got written: the calls that returned
StatusWrites == SelectSeq(status_calls, LAMBDA c : c.ok)

\* update_source_status(source_id, value) returns: the row is updated
StatusCallOk(value) ==
  /\ status' = value
  /\ status_calls' = Append(status_calls, [value |-> value, ok |-> TRUE])

\* update_source_status(source_id, value) raises
StatusCallRaise(value) ==
  /\ status_calls' = Append(status_calls, [value |-> value, ok |-> FALSE])
  /\ UNCHANGED status

\* lines 32-33: the services are constructed
InitServices ==
  /\ ipc = "init"
  /\ ipc' = "fetch"
  /\ UNCHANGED <<src_video_ids, transcript_results, idx, storage_results,
                 storage_errors, vstore, status, status_calls, late_step>>
  /\ UNCHANGED nonIngestVars

\* line 33: PineconeService() raises (_ensure_index_exists); to line 93
InitServicesRaise ==
  /\ ipc = "init"
  /\ ipc' = "except"
  /\ UNCHANGED <<src_video_ids, transcript_results, idx, storage_results,
                 storage_errors, vstore, status, status_calls, late_step>>
  /\ UNCHANGED nonIngestVars

\* line 37: fetch_multiple_transcripts(video_ids)
FetchTranscripts ==
  /\ ipc = "fetch"
  /\ transcript_results' \in FetchOutcomes(src_video_ids)
  /\ ipc' = "check"
  /\ late_step' = (late_step \/ status_calls # <<>>)
  /\ UNCHANGED <<src_video_ids, idx, storage_results, storage_errors, vstore,
                 status, status_calls>>
  /\ UNCHANGED nonIngestVars

\* lines 41-44: nothing fetched, status failed is written and the run returns
NoTranscriptsFailed ==
  /\ ipc = "check"
  /\ transcript_results.results = <<>>
  /\ StatusCallOk("failed")
  /\ ipc' = "done"
  /\ UNCHANGED <<src_video_ids, transcript_results, idx, storage_results,
                 storage_errors, vstore, late_step>>
  /\ UNCHANGED nonIngestVars

\* line 43: update_source_status raises; to line 93
NoTranscriptsFailedRaise ==
  /\ ipc = "check"
  /\ transcript_results.results = <<>>
  /\ StatusCallRaise("failed")
  /\ ipc' = "except"
  /\ UNCHANGED <<src_video_ids, transcript_results, idx, storage_results,
                 storage_errors, vstore, late_step>>
  /\ UNCHANGED nonIngestVars

\* lines 41, 47-52: something was fetched, the store loop begins
BeginStore ==
  /\ ipc = "check"
  /\ transcript_results.results # <<>>
  /\ idx' = 1
  /\ ipc' = "store"
  /\ UNCHANGED <<src_video_ids, transcript_results, storage_results,
                 storage_errors, vstore, status, status_calls, late_step>>
  /\ UNCHANGED nonIngestVars

CurrentVideo == transcript_results.results[idx].video_id

\* after one pass of the loop body: the next transcript, or line 77
AfterStore == IF idx < Len(transcript_results.results) THEN "store" ELSE "final"

\* store_transcript lines 60-62: video_exists is true, 'exists' is returned
\* (process_source_background lines 61-66)
StoreExists ==
  /\ ipc = "store"
  /\ CurrentVideo \in vstore
  /\ storage_results' = Append(storage_results, "exists")
  /\ idx' = idx + 1
  /\ ipc' = AfterStore
  /\ late_step' = (late_step \/ status_calls # <<>>)
  /\ UNCHANGED <<src_video_ids, transcript_results, storage_errors, vstore,
                 status, status_calls>>
  /\ UNCHANGED nonIngestVars

\* store_transcript line 60: video_exists is false: no vector of the video,
\* or the query raised and video_exists returned False (lines 50-54)
StoreNotExists ==
  /\ ipc = "store"
  /\ ipc' = "upsert"
  /\ late_step' = (late_step \/ status_calls # <<>>)
  /\ UNCHANGED <<src_video_ids, transcript_results, idx, storage_results,
                 storage_errors, vstore, status, status_calls>>
  /\ UNCHANGED nonIngestVars

\* store_transcript lines 64-106: chunked, embedded, upserted; 'stored'
StoreUpsert ==
  /\ ipc = "upsert"
  /\ vstore' = vstore \cup {CurrentVideo}
  /\ storage_results' = Append(storage_results, "stored")
  /\ idx' = idx + 1
  /\ ipc' = AfterStore
  /\ late_step' = (late_step \/ status_calls # <<>>)
  /\ UNCHANGED <<src_video_ids, transcript_results, storage_errors,
                 status, status_calls>>
  /\ UNCHANGED nonIngestVars

\* store_transcript lines 64-110: chunking, embedding or upsert raises; the
\* loop records it (lines 69-74) and goes on
StoreRaise ==
  /\ ipc = "upsert"
  /\ storage_errors' = Append(storage_errors, CurrentVideo)
  /\ idx' = idx + 1
  /\ ipc' = AfterStore
  /\ late_step' = (late_step \/ status_calls # <<>>)
  /\ UNCHANGED <<src_video_ids, transcript_results, storage_results, vstore,
                 status, status_calls>>
  /\ UNCHANGED nonIngestVars

\* lines 77-89: the status the run decides on
FinalStatus == IF Len(storage_results) = 0 THEN "failed" ELSE "ready"

\* lines 77-91: the status is written and the run ends
FinalWrite ==
  /\ ipc = "final"
  /\ StatusCallOk(FinalStatus)
  /\ ipc' = "done"
  /\ UNCHANGED <<src_video_ids, transcript_results, idx, storage_results,
                 storage_errors, vstore, late_step>>
  /\ UNCHANGED nonIngestVars

\* lines 79, 89: update_source_status raises; to line 93
FinalWriteRaise ==
  /\ ipc = "final"
  /\ StatusCallRaise(FinalStatus)
  /\ ipc' = "except"
  /\ UNCHANGED <<src_video_ids, transcript_results, idx, storage_results,
                 storage_errors, vstore, late_step>>
  /\ UNCHANGED nonIngestVars

\* lines 93-96: the handler writes failed
ExceptWrite ==
  /\ ipc = "except"
  /\ StatusCallOk("failed")
  /\ ipc' = "done"
  /\ UNCHANGED <<src_video_ids, transcript_results, idx, storage_results,
                 storage_errors, vstore, late_step>>
  /\ UNCHANGED nonIngestVars

\* lines 95-98: the handler's update_source_status raises too: pass
ExceptWriteRaise ==
  /\ ipc = "except"
  /\ StatusCallRaise("failed")
  /\ ipc' = "done"
  /\ UNCHANGED <<src_video_ids, transcript_results, idx, storage_results,
                 storage_errors, vstore, late_step>>
  /\ UNCHANGED nonIngestVars

IngestNext ==
  \/ InitServices
  \/ InitServicesRaise
  \/ FetchTranscripts
  \/ NoTranscriptsFailed
  \/ NoTranscriptsFailedRaise
  \/ BeginStore
  \/ StoreExists
  \/ StoreNotExists
  \/ StoreUpsert
  \/ StoreRaise
  \/ FinalWrite
  \/ FinalWriteRaise
  \/ ExceptWrite
  \/ ExceptWriteRaise

\* ---------------------------------------------------------------------
\* process_videos (transcript_routes.py 213-254) when submit_background_task
\* returns False: the request thread writes the status itself
\* ---------------------------------------------------------------------
\* lines 222-229: the task was refused; status failed is written, 500
SubmitRefused ==
  /\ ipc = "init"
  /\ StatusCallOk("failed")
  /\ ipc' = "done"
  /\ UNCHANGED <<src_video_ids, transcript_results, idx, storage_results,
                 storage_errors, vstore, late_step>>
  /\ UNCHANGED nonIngestVars

\* line 224: update_source_status raises; to the handler at line 248
SubmitRefusedRaise ==
  /\ ipc = "init"
  /\ StatusCallRaise("failed")
  /\ ipc' = "request_except"
  /\ UNCHANGED <<src_video_ids, transcript_results, idx, storage_results,
                 storage_errors, vstore, late_step>>
  /\ UNCHANGED nonIngestVars

\* lines 248-258: the handler writes failed and answers 500
RequestExceptWrite ==
  /\ ipc = "request_except"
  /\ StatusCallOk("failed")
  /\ ipc' = "done"
  /\ UNCHANGED <<src_video_ids, transcript_results, idx, storage_results,
                 storage_errors, vstore, late_step>>
  /\ UNCHANGED nonIngestVars

\* lines 251-254: the write in the handler raises too; `except: pass`
RequestExceptWriteRaise ==
  /\ ipc = "request_except"
  /\ StatusCallRaise("failed")
  /\ ipc' = "done"
  /\ UNCHANGED <<src_video_ids, transcript_results, idx, storage_results,
                 storage_errors, vstore, late_step>>
  /\ UNCHANGED nonIngestVars

\* a registered source: the task runs on a worker, or it was refused
SourceNext ==
  \/ InitServices
  \/ InitServicesRaise
  \/ FetchTranscripts
  \/ NoTranscriptsFailed
  \/ NoTranscriptsFailedRaise
  \/ BeginStore
  \/ StoreExists
  \/ StoreNotExists
  \/ StoreUpsert
  \/ StoreRaise
  \/ FinalWrite
  \/ FinalWriteRaise
  \/ ExceptWrite
  \/ ExceptWriteRaise
  \/ SubmitRefused
  \/ SubmitRefusedRaise
  \/ RequestExceptWrite
  \/ RequestExceptWriteRaise

\* =====================================================================
\* retry_source (transcript_routes.py 363-417), one request at a time, on the
\* source of the run above
\* =====================================================================
NoResults == [results |-> <<>>, errors |-> <<>>]

RetryIdle ==
  /\ retry_pc = "idle"
  /\ retry_results = NoResults
  /\ retry_idx = 0

\* lines 378-379: the source is not failed: 400, nothing changes
RetryRefused ==
  /\ retry_pc = "idle"
  /\ ipc # "idle"
  /\ status # "failed"
  /\ UNCHANGED vars

\* line 378: the source is failed, the request goes on
RetryCheck ==
  /\ retry_pc = "idle"
  /\ ipc # "idle"
  /\ status = "failed"
  /\ retry_pc' = "mark"
  /\ UNCHANGED <<retry_results, retry_idx>>
  /\ UNCHANGED <<ingestVars, poolVars, fetchVars, rankVars, poolObs, chunkVars,
               storeVars, lazyVars>>

\* line 382: update_source_status(source_id, 'processing')
RetryMarkProcessing ==
  /\ retry_pc = "mark"
  /\ status' = "processing"
  /\ retry_pc' = "fetch"
  /\ UNCHANGED <<retry_results, retry_idx>>
  /\ UNCHANGED <<src_video_ids, ipc, transcript_results, idx, storage_results,
                 storage_errors, vstore, status_calls, late_step>>
  /\ UNCHANGED <<poolVars, fetchVars, rankVars, poolObs, chunkVars,
               storeVars, lazyVars>>

\* lines 385-390: the services are constructed and the transcripts fetched
RetryFetch ==
  /\ retry_pc = "fetch"
  /\ retry_results' \in FetchOutcomes(src_video_ids)
  /\ retry_idx' = 1
  /\ retry_pc' = "store"
  /\ UNCHANGED <<ingestVars, poolVars, fetchVars, rankVars, poolObs, chunkVars,
               storeVars, lazyVars>>

\* lines 392-400: store_transcript returns for the next fetched transcript
RetryStore ==
  /\ retry_pc = "store"
  /\ retry_idx <= Len(retry_results.results)
  /\ vstore' = vstore \cup {retry_results.results[retry_idx].video_id}
  /\ retry_idx' = retry_idx + 1
  /\ UNCHANGED <<retry_pc, retry_results>>
  /\ UNCHANGED <<src_video_ids, ipc, transcript_results, idx, storage_results,
                 storage_errors, status, status_calls, late_step>>
  /\ UNCHANGED <<poolVars, fetchVars, rankVars, poolObs, chunkVars,
               storeVars, lazyVars>>

\* lines 386, 394: a constructor or store_transcript raises; to line 414
RetryRaise ==
  /\ \/ retry_pc = "fetch"
     \/ retry_pc = "store" /\ retry_idx <= Len(retry_results.results)
  /\ retry_pc' = "except"
  /\ UNCHANGED <<retry_results, retry_idx>>
  /\ UNCHANGED <<ingestVars, poolVars, fetchVars, rankVars, poolObs, chunkVars,
               storeVars, lazyVars>>

\* lines 403-412: failed if a fetch failed, else ready; the request is done
RetryFinal ==
  /\ retry_pc = "store"
  /\ retry_idx > Len(retry_results.results)
  /\ status' = IF retry_results.errors # <<>> THEN "failed" ELSE "ready"
  /\ retry_pc' = "idle"
  /\ retry_results' = NoResults
  /\ retry_idx' = 0
  /\ UNCHANGED <<src_video_ids, ipc, transcript_results, idx, storage_results,
                 storage_errors, vstore, status_calls, late_step>>
  /\ UNCHANGED <<poolVars, fetchVars, rankVars, poolObs, chunkVars,
               storeVars, lazyVars>>

\* lines 414-417: the handler writes failed; the request is done
RetryExcept ==
  /\ retry_pc = "except"
  /\ status' = "failed"
  /\ retry_pc' = "idle"
  /\ retry_results' = NoResults
  /\ retry_idx' = 0
  /\ UNCHANGED <<src_video_ids, ipc, transcript_results, idx, storage_results,
                 storage_errors, vstore, status_calls, late_step>>
  /\ UNCHANGED <<poolVars, fetchVars, rankVars, poolObs, chunkVars,
               storeVars, lazyVars>>

RetryNext ==
  \/ RetryRefused
  \/ RetryCheck
  \/ RetryMarkProcessing
  \/ RetryFetch
  \/ RetryStore
  \/ RetryRaise
  \/ RetryFinal
  \/ RetryExcept

\* the run of process_source_background and the retry requests on its source
LifecycleNext ==
  \/ InitServices
  \/ InitServicesRaise
  \/ FetchTranscripts
  \/ NoTranscriptsFailed
  \/ NoTranscriptsFailedRaise
  \/ BeginStore
  \/ StoreExists
  \/ StoreNotExists
  \/ StoreUpsert
  \/ StoreRaise
  \/ FinalWrite
  \/ FinalWriteRaise
  \/ ExceptWrite
  \/ ExceptWriteRaise
  \/ RetryRefused
  \/ RetryCheck
  \/ RetryMarkProcessing
  \/ RetryFetch
  \/ RetryStore
  \/ RetryRaise
  \/ RetryFinal
  \/ RetryExcept

\* =====================================================================
\* PineconeService: _calculate_overlap, _deduplicate_chunks,
\* _group_and_sort_chunks, and their use in query_videos
\* Scores and times are integers: only their order and the overlap
\* fraction, computed exactly, matter.
\* =====================================================================
Min(a, b) == IF a <= b THEN a ELSE b
Max(a, b) == IF a >= b THEN a ELSE b

\* what a match can be: video, score (in tenths), start_time, end_time
MatchChoices ==
  { <<"v1", 9, 10, 20>>, <<"v1", 7, 10, 20>>,
    <<"v1", 7, 12, 18>>,
    <<"v1", 9, 11, 21>>, <<"v1", 7, 11, 21>>,
    <<"v1", 9, 12, 22>>,
    <<"v1", 7, 15, 15>>, <<"v1", 7, 10, 12>>,
    <<"v2", 9, 10, 20>>, <<"v2", 7, 10, 20>> }

\* the match at position i of the query's answer
MakeMatch(i, c) ==
  [id |-> i, score |-> c[2], video_id |-> c[1], start_time |-> c[3], end_time |-> c[4]]

MatchLists(n) ==
  { [i \in DOMAIN f |-> MakeMatch(i, f[i])] :
      f \in UNION {[1..k -> MatchChoices] : k \in 0..n} }

\* the overlap fraction dividing by the longer chunk instead of the shorter
calculate_overlap_OfLonger(chunk1, chunk2) ==
  LET overlap_start == Max(chunk1.start_time, chunk2.start_time)
      overlap_end == Min(chunk1.end_time, chunk2.end_time)
      max_duration == Max(chunk1.end_time - chunk1.start_time,
                          chunk2.end_time - chunk2.start_time)
  IN  IF overlap_start >= overlap_end THEN <<0, 1>>
      ELSE IF max_duration = 0 THEN <<0, 1>>
      ELSE <<overlap_end - overlap_start, max_duration>>

\* _calculate_overlap: the fraction <<numerator, denominator>>; 0.0 is <<0, 1>>
calculate_overlap(chunk1, chunk2) ==
  LET overlap_start == Max(chunk1.start_time, chunk2.start_time)
      overlap_end == Min(chunk1.end_time, chunk2.end_time)
      min_duration == Min(chunk1.end_time - chunk1.start_time,
                          chunk2.end_time - chunk2.start_time)
  IN  IF overlap_start >= overlap_end THEN <<0, 1>>
      ELSE IF min_duration = 0 THEN <<0, 1>>
      ELSE <<overlap_end - overlap_start, min_duration>>

\* the test of line 222 against a threshold of 1.0
ExceedsThreshold_One(overlap) == overlap[1] > overlap[2]

\* line 222: overlap > overlap_threshold, for a fraction with denominator > 0
ExceedsThreshold(overlap) ==
  overlap[1] * OverlapThresholdDen > OverlapThresholdNum * overlap[2]

\* c put into acc (sorted by score, highest first) before its equals
InsertByScore_BeforeEquals(acc, c) ==
  LET k == Cardinality({j \in DOMAIN acc : acc[j].score > c.score})
  IN  SubSeq(acc, 1, k) \o <<c>> \o SubSeq(acc, k + 1, Len(acc))

\* c put into acc (sorted by score, highest first) behind its equals
InsertByScore(acc, c) ==
  LET k == Cardinality({j \in DOMAIN acc : acc[j].score >= c.score})
  IN  SubSeq(acc, 1, k) \o <<c>> \o SubSeq(acc, k + 1, Len(acc))

RECURSIVE SortByScoreFrom(_, _, _)
SortByScoreFrom(chunks, i, acc) ==
  IF i > Len(chunks) THEN acc
  ELSE SortByScoreFrom(chunks, i + 1, InsertByScore(acc, chunks[i]))

\* line 208 without the sort: the chunks in the order of the input
SortByScoreDesc_InputOrder(chunks) == chunks

\* line 208: sorted(chunks, key=score, reverse=True): stable, equals keep
\* their order
SortByScoreDesc(chunks) == SortByScoreFrom(chunks, 1, <<>>)

\* the test of lines 217-225 without the video_id comparison of line 218
HasSignificantOverlap_AnyVideo(chunk, kept) ==
  \E k \in DOMAIN kept : ExceedsThreshold(calculate_overlap(chunk, kept[k]))

\* lines 217-225: chunk overlaps a kept chunk of its video by more than 0.8
HasSignificantOverlap(chunk, kept) ==
  \E k \in DOMAIN kept :
    /\ chunk.video_id = kept[k].video_id
    /\ ExceedsThreshold(calculate_overlap(chunk, kept[k]))

\* lines 213-228: the walk over the sorted chunks
RECURSIVE DedupFrom(_, _, _)
DedupFrom(sorted_chunks, i, kept) ==
  IF i > Len(sorted_chunks) THEN kept
  ELSE DedupFrom(sorted_chunks, i + 1,
                 IF HasSignificantOverlap(sorted_chunks[i], kept)
                 THEN kept ELSE Append(kept, sorted_chunks[i]))

\* lines 207-228: what the walk keeps, before the floor of lines 232-234
DedupWalk(chunks) == DedupFrom(SortByScoreDesc(chunks), 1, <<>>)

\* line 232: the walk kept fewer than 3 of at least 3 chunks
FloorApplies(chunks) ==
  Len(DedupWalk(chunks)) < MinKept /\ Len(chunks) >= MinKept

\* _deduplicate_chunks without the floor of lines 232-234
deduplicate_chunks_NoFloor(chunks) ==
  IF chunks = <<>> THEN <<>> ELSE DedupWalk(chunks)

\* _deduplicate_chunks
deduplicate_chunks(chunks) ==
  IF chunks = <<>> THEN <<>>
  ELSE IF FloorApplies(chunks) THEN SubSeq(SortByScoreDesc(chunks), 1, MinKept)
  ELSE DedupWalk(chunks)

\* lines 254-259: the video ids in the order of their first chunk
RECURSIVE VideoOrderFrom(_, _, _)
VideoOrderFrom(chunks, i, acc) ==
  IF i > Len(chunks) THEN acc
  ELSE VideoOrderFrom(chunks, i + 1,
         IF \E k \in DOMAIN acc : acc[k] = chunks[i].video_id
         THEN acc ELSE Append(acc, chunks[i].video_id))

\* c put into acc sorted by start_time the other way round, latest first
InsertByStart_LatestFirst(acc, c) ==
  LET k == Cardinality({j \in DOMAIN acc : acc[j].start_time >= c.start_time})
  IN  SubSeq(acc, 1, k) \o <<c>> \o SubSeq(acc, k + 1, Len(acc))

\* c put into acc (sorted by start_time, lowest first) behind its equals
InsertByStart(acc, c) ==
  LET k == Cardinality({j \in DOMAIN acc : acc[j].start_time <= c.start_time})
  IN  SubSeq(acc, 1, k) \o <<c>> \o SubSeq(acc, k + 1, Len(acc))

RECURSIVE SortByStartFrom(_, _, _)
SortByStartFrom(chunks, i, acc) ==
  IF i > Len(chunks) THEN acc
  ELSE SortByStartFrom(chunks, i + 1, InsertByStart(acc, chunks[i]))

\* lines 262-263: list.sort(key=start_time), stable
SortByStart(chunks) == SortByStartFrom(chunks, 1, <<>>)

\* videos_dict[video_id] after lines 254-263
VideoChunks(chunks, v) ==
  SortByStart(SelectSeq(chunks, LAMBDA c : c.video_id = v))

\* line 269: max(chunk score for chunk in x[1])
MaxScore(video_chunks) ==
  LET S == {video_chunks[k].score : k \in DOMAIN video_chunks}
  IN  CHOOSE m \in S : \A x \in S : x <= m

\* g put into acc (groups sorted by max score, highest first) before its equals
InsertGroup_BeforeEquals(acc, g) ==
  LET k == Cardinality({j \in DOMAIN acc : MaxScore(acc[j]) > MaxScore(g)})
  IN  SubSeq(acc, 1, k) \o <<g>> \o SubSeq(acc, k + 1, Len(acc))

\* g put into acc (groups sorted by max score, highest first) behind its equals
InsertGroup(acc, g) ==
  LET k == Cardinality({j \in DOMAIN acc : MaxScore(acc[j]) >= MaxScore(g)})
  IN  SubSeq(acc, 1, k) \o <<g>> \o SubSeq(acc, k + 1, Len(acc))

RECURSIVE SortGroupsFrom(_, _, _)
SortGroupsFrom(groups, i, acc) ==
  IF i > Len(groups) THEN acc
  ELSE SortGroupsFrom(groups, i + 1, InsertGroup(acc, groups[i]))

RECURSIVE Flatten(_)
Flatten(groups) ==
  IF groups = <<>> THEN <<>> ELSE Head(groups) \o Flatten(Tail(groups))

\* lines 267-271: the videos' chunk lists, by max score, highest first, stable
SortedVideos(chunks) ==
  LET order == VideoOrderFrom(chunks, 1, <<>>)
      groups == [k \in DOMAIN order |-> VideoChunks(chunks, order[k])]
  IN  SortGroupsFrom(groups, 1, <<>>)

\* _group_and_sort_chunks
group_and_sort_chunks(chunks) ==
  IF chunks = <<>> THEN <<>> ELSE Flatten(SortedVideos(chunks))

RankIdle ==
  /\ matches = <<>>
  /\ rpc = "idle"
  /\ deduped = <<>>
  /\ ranked = <<>>
  /\ ranked_again = <<>>
  /\ shuffled = <<>>

\* line 146: the index query has answered
RankInit ==
  /\ matches \in MatchLists(MaxMatches)
  /\ rpc = "raw"
  /\ deduped = <<>>
  /\ ranked = <<>>
  /\ ranked_again = <<>>
  /\ shuffled = <<>>

\* query_videos lines 146-151: deduplicate, group and sort, return
QueryVideosRank ==
  /\ rpc = "raw"
  /\ deduped' = deduplicate_chunks(matches)
  /\ ranked' = group_and_sort_chunks(deduped')
  /\ rpc' = "ranked"
  /\ UNCHANGED <<matches, ranked_again, shuffled>>
  /\ UNCHANGED nonRankVars

\* the two steps of lines 147-148 applied to the list they returned
RankAgain ==
  /\ rpc = "ranked"
  /\ ranked_again' = group_and_sort_chunks(deduplicate_chunks(ranked))
  /\ rpc' = "again"
  /\ UNCHANGED <<matches, deduped, ranked, shuffled>>
  /\ UNCHANGED nonRankVars

\* the spans a match can have, without its score
SpanChoices ==
  { <<"v1", 10, 20>>, <<"v1", 11, 21>>, <<"v1", 10, 12>>, <<"v2", 10, 20>> }

\* the scores of a list by position: pairwise distinct, or tied in pairs
ScorePatterns == { [i \in 1..(MaxMatches + 1) |-> 10 - i],
                   [i \in 1..(MaxMatches + 1) |-> 9 - ((i - 1) \div 2)] }

ScoredLists(n) ==
  { [i \in DOMAIN f |-> [id |-> i, score |-> sc[i], video_id |-> f[i][1],
                         start_time |-> f[i][2], end_time |-> f[i][3]]] :
      f \in UNION {[1..k -> SpanChoices] : k \in 0..n}, sc \in ScorePatterns }

\* line 146: the index query has answered, its matches by descending score
ShuffleInit ==
  /\ matches \in ScoredLists(MaxMatches)
  /\ rpc = "raw"
  /\ deduped = <<>>
  /\ ranked = <<>>
  /\ ranked_again = <<>>
  /\ shuffled = <<>>

\* line 146 of a second query: the index answers with the same matches in
\* another order
ShuffledAnswer ==
  /\ rpc = "ranked"
  /\ \E p \in Perms(DOMAIN matches) :
       shuffled' = [i \in DOMAIN matches |-> matches[p[i]]]
  /\ rpc' = "raw_shuffled"
  /\ UNCHANGED <<matches, deduped, ranked, ranked_again>>
  /\ UNCHANGED nonRankVars

\* query_videos lines 147-151 of the second query
RankShuffled ==
  /\ rpc = "raw_shuffled"
  /\ ranked_again' = group_and_sort_chunks(deduplicate_chunks(shuffled))
  /\ rpc' = "shuffled"
  /\ UNCHANGED <<matches, deduped, ranked, shuffled>>
  /\ UNCHANGED nonRankVars

ShuffleNext ==
  \/ QueryVideosRank
  \/ ShuffledAnswer
  \/ RankShuffled

RankNext ==
  \/ QueryVideosRank
  \/ RankAgain

\* =====================================================================
\* EmbeddingService.chunk_transcript
\* A text is the sequence of its characters.
\* =====================================================================
\* what a segment can be: length of its text, start, duration
SegmentChoices ==
  { <<0, 0, 1>>, <<1, 0, 2>>, <<2, 1, 1>>, <<3, 2, 1>>, <<1, 3, 0>>, <<4, 3, 2>> }

MakeSegment(c) == [text |-> Repeat("a", c[1]), start |-> c[2], duration |-> c[3]]

SegmentLists(n) ==
  { [i \in DOMAIN f |-> MakeSegment(f[i])] :
      f \in UNION {[1..k -> SegmentChoices] : k \in 0..n} }

NoChunk == [text |-> <<>>, start_time |-> 0, end_time |-> 0, segments |-> <<>>]

ChunkIdle ==
  /\ segments = <<>>
  /\ chunk_size = 0
  /\ cpc = "idle"
  /\ chunk_list = <<>>
  /\ current_chunk = NoChunk
  /\ current_length = 0
  /\ seg_i = 0

\* a call with some list of segments and some chunk_size
ChunkInit ==
  /\ segments \in SegmentLists(MaxSegments)
  /\ chunk_size \in 0..MaxChunkSize
  /\ cpc = "call"
  /\ chunk_list = <<>>
  /\ current_chunk = NoChunk
  /\ current_length = 0
  /\ seg_i = 0

\* lines 39-47 with the guard `if not segments: return []` the code lacks
ChunkBeginEmpty_ReturnsEmpty ==
  /\ cpc = "call"
  /\ segments = <<>>
  /\ cpc' = "returned"
  /\ UNCHANGED <<segments, chunk_size, chunk_list, current_chunk, current_length, seg_i>>
  /\ UNCHANGED nonChunkVars

\* line 43: segments[0] of an empty list raises IndexError
ChunkBeginEmpty ==
  /\ cpc = "call"
  /\ segments = <<>>
  /\ cpc' = "raised"
  /\ UNCHANGED <<segments, chunk_size, chunk_list, current_chunk, current_length, seg_i>>
  /\ UNCHANGED nonChunkVars

\* lines 39-47: the empty first chunk, starting where the first segment starts
ChunkBegin ==
  /\ cpc = "call"
  /\ segments # <<>>
  /\ current_chunk' = [text |-> <<>>, start_time |-> segments[1].start,
                       end_time |-> 0, segments |-> <<>>]
  /\ current_length' = 0
  /\ seg_i' = 1
  /\ cpc' = "loop"
  /\ UNCHANGED <<segments, chunk_size, chunk_list>>
  /\ UNCHANGED nonChunkVars

\* line 51: the segment does not fit and the current chunk has text
ClosesChunk(segment) ==
  current_length + Len(segment.text) > chunk_size /\ current_chunk.text # <<>>

\* lines 49-59: the current chunk is closed, a new one starts with the segment
ChunkClose ==
  /\ cpc = "loop"
  /\ seg_i <= Len(segments)
  /\ ClosesChunk(segments[seg_i])
  /\ LET segment == segments[seg_i] IN
       /\ chunk_list' = Append(chunk_list, current_chunk)
       /\ current_chunk' = [text |-> segment.text,
                            start_time |-> segment.start,
                            end_time |-> segment.start + segment.duration,
                            segments |-> <<segment>>]
       /\ current_length' = Len(segment.text)
  /\ seg_i' = seg_i + 1
  /\ UNCHANGED <<segments, chunk_size, cpc>>
  /\ UNCHANGED nonChunkVars

\* lines 49-51, 60-64: the segment is added to the current chunk
ChunkExtend ==
  /\ cpc = "loop"
  /\ seg_i <= Len(segments)
  /\ ~ClosesChunk(segments[seg_i])
  /\ LET segment == segments[seg_i] IN
       /\ current_chunk' = [current_chunk EXCEPT
                              !.text = @ \o <<" ">> \o segment.text,
                              !.end_time = segment.start + segment.duration,
                              !.segments = Append(@, segment)]
       /\ current_length' = current_length + Len(segment.text)
  /\ seg_i' = seg_i + 1
  /\ UNCHANGED <<segments, chunk_size, cpc, chunk_list>>
  /\ UNCHANGED nonChunkVars

\* lines 66-70: the last chunk is added if it has text; chunks is returned
ChunkReturn ==
  /\ cpc = "loop"
  /\ seg_i > Len(segments)
  /\ chunk_list' = IF current_chunk.text # <<>> THEN Append(chunk_list, current_chunk) ELSE chunk_list
  /\ cpc' = "returned"
  /\ UNCHANGED <<segments, chunk_size, current_chunk, current_length, seg_i>>
  /\ UNCHANGED nonChunkVars

ChunkNext ==
  \/ ChunkBeginEmpty
  \/ ChunkBegin
  \/ ChunkClose
  \/ ChunkExtend
  \/ ChunkReturn

\* =====================================================================
\* PineconeService.store_transcript called by two ingestion tasks, each on
\* its own worker thread and its own PineconeService, for two sources
\* =====================================================================
Sources == {1, 2}

StoreIdle ==
  /\ st_video = [k \in Sources |-> "v1"]
  /\ st_pc = [k \in Sources |-> "idle"]
  /\ st_saw = [k \in Sources |-> "none"]
  /\ index_has = {}
  /\ upserts = [v \in VideoIds |-> 0]

\* both tasks are about to call store_transcript, for the same video or not;
\* earlier runs may have stored some videos
StoreInit ==
  /\ st_video \in [Sources -> VideoIds]
  /\ st_pc = [k \in Sources |-> "call"]
  /\ st_saw = [k \in Sources |-> "none"]
  /\ index_has \in SUBSET VideoIds
  /\ upserts = [v \in VideoIds |-> 0]

\* lines 60-62 with the result of video_exists ignored: the task goes on
VideoExistsTrue_Ignored(k) ==
  /\ st_pc[k] = "call"
  /\ st_video[k] \in index_has
  /\ st_saw' = [st_saw EXCEPT ![k] = "exists"]
  /\ st_pc' = [st_pc EXCEPT ![k] = "embed"]
  /\ UNCHANGED <<st_video, index_has, upserts>>
  /\ UNCHANGED nonStoreVars

\* lines 41-49, 60-62: the query finds a vector of the video; 'exists'
VideoExistsTrue(k) ==
  /\ st_pc[k] = "call"
  /\ st_video[k] \in index_has
  /\ st_saw' = [st_saw EXCEPT ![k] = "exists"]
  /\ st_pc' = [st_pc EXCEPT ![k] = "exists"]
  /\ UNCHANGED <<st_video, index_has, upserts>>
  /\ UNCHANGED nonStoreVars

\* lines 41-49, 60: the query finds no vector of the video
VideoExistsFalse(k) ==
  /\ st_pc[k] = "call"
  /\ st_video[k] \notin index_has
  /\ st_saw' = [st_saw EXCEPT ![k] = "absent"]
  /\ st_pc' = [st_pc EXCEPT ![k] = "embed"]
  /\ UNCHANGED <<st_video, index_has, upserts>>
  /\ UNCHANGED nonStoreVars

\* lines 50-54: the query raises, video_exists returns False
VideoExistsError(k) ==
  /\ st_pc[k] = "call"
  /\ st_saw' = [st_saw EXCEPT ![k] = "error"]
  /\ st_pc' = [st_pc EXCEPT ![k] = "embed"]
  /\ UNCHANGED <<st_video, index_has, upserts>>
  /\ UNCHANGED nonStoreVars

\* lines 64-106: chunked, embedded, index.upsert(vectors); 'stored'
Upsert(k) ==
  /\ st_pc[k] = "embed"
  /\ index_has' = index_has \cup {st_video[k]}
  /\ upserts' = [upserts EXCEPT ![st_video[k]] = @ + 1]
  /\ st_pc' = [st_pc EXCEPT ![k] = "stored"]
  /\ UNCHANGED <<st_video, st_saw>>
  /\ UNCHANGED nonStoreVars

\* lines 64-110: chunking, embedding or upsert raises, store_transcript re-raises
StoreTranscriptRaise(k) ==
  /\ st_pc[k] = "embed"
  /\ st_pc' = [st_pc EXCEPT ![k] = "raised"]
  /\ UNCHANGED <<st_video, st_saw, index_has, upserts>>
  /\ UNCHANGED nonStoreVars

StoreNext ==
  \/ \E k \in Sources : VideoExistsTrue(k)
  \/ \E k \in Sources : VideoExistsFalse(k)
  \/ \E k \in Sources : VideoExistsError(k)
  \/ \E k \in Sources : Upsert(k)
  \/ \E k \in Sources : StoreTranscriptRaise(k)

\* =====================================================================
\* get_background_processor and submit_background_task called by request
\* threads; start() is taken as one step here
\* =====================================================================
Callers == 1..MaxCallers

LazyIdle ==
  /\ gp = 0
  /\ created = 0
  /\ prunning = [p \in Callers |-> FALSE]
  /\ call_pc = [c \in Callers |-> "idle"]
  /\ call_proc = [c \in Callers |-> 0]

\* the module is imported, no pool exists; every caller is at line 170
LazyInit ==
  /\ gp = 0
  /\ created = 0
  /\ prunning = [p \in Callers |-> FALSE]
  /\ call_pc = [c \in Callers |-> "test"]
  /\ call_proc = [c \in Callers |-> 0]

\* line 170: _background_processor is None
GetTestNone(c) ==
  /\ call_pc[c] = "test"
  /\ gp = 0
  /\ call_pc' = [call_pc EXCEPT ![c] = "create"]
  /\ UNCHANGED <<gp, created, prunning, call_proc>>
  /\ UNCHANGED nonLazyVars

\* line 170: _background_processor is set; to line 174
GetTestSet(c) ==
  /\ call_pc[c] = "test"
  /\ gp # 0
  /\ call_pc' = [call_pc EXCEPT ![c] = "return"]
  /\ UNCHANGED <<gp, created, prunning, call_proc>>
  /\ UNCHANGED nonLazyVars

\* line 171: a BackgroundProcessor is constructed and bound to the global
GetCreate(c) ==
  /\ call_pc[c] = "create"
  /\ created' = created + 1
  /\ gp' = created + 1
  /\ call_pc' = [call_pc EXCEPT ![c] = "start"]
  /\ UNCHANGED <<prunning, call_proc>>
  /\ UNCHANGED nonLazyVars

\* line 172: _background_processor.start(), on what the global is bound to now
GetStart(c) ==
  /\ call_pc[c] = "start"
  /\ prunning' = [prunning EXCEPT ![gp] = TRUE]
  /\ call_pc' = [call_pc EXCEPT ![c] = "return"]
  /\ UNCHANGED <<gp, created, call_proc>>
  /\ UNCHANGED nonLazyVars

\* line 174: return _background_processor
GetReturn(c) ==
  /\ call_pc[c] = "return"
  /\ call_proc' = [call_proc EXCEPT ![c] = gp]
  /\ call_pc' = [call_pc EXCEPT ![c] = "have"]
  /\ UNCHANGED <<gp, created, prunning>>
  /\ UNCHANGED nonLazyVars

\* line 190, submit_task lines 87-100 on the instance: True when it runs
SubmitAccepted(c) ==
  /\ call_pc[c] = "have"
  /\ prunning[call_proc[c]]
  /\ call_pc' = [call_pc EXCEPT ![c] = "accepted"]
  /\ UNCHANGED <<gp, created, prunning, call_proc>>
  /\ UNCHANGED nonLazyVars

\* line 190, submit_task lines 87-89: the instance does not run: False
SubmitRejected(c) ==
  /\ call_pc[c] = "have"
  /\ ~prunning[call_proc[c]]
  /\ call_pc' = [call_pc EXCEPT ![c] = "rejected"]
  /\ UNCHANGED <<gp, created, prunning, call_proc>>
  /\ UNCHANGED nonLazyVars

LazyNext ==
  \/ \E c \in Callers : GetTestNone(c)
  \/ \E c \in Callers : GetTestSet(c)
  \/ \E c \in Callers : GetCreate(c)
  \/ \E c \in Callers : GetStart(c)
  \/ \E c \in Callers : GetReturn(c)
  \/ \E c \in Callers : SubmitAccepted(c)
  \/ \E c \in Callers : SubmitRejected(c)

\* =====================================================================
\* specifications
\* =====================================================================
Init == PoolInit /\ FetchIdle /\ IngestIdle /\ RankIdle /\ ChunkIdle /\ RetryIdle
    /\ StoreIdle /\ LazyIdle

Next == PoolNext

Spec == Init /\ [][Next]_vars

FetchSpecInit == PoolInit /\ FetchInit /\ IngestIdle /\ RankIdle /\ ChunkIdle /\ RetryIdle
    /\ StoreIdle /\ LazyIdle

FetchSpec == FetchSpecInit /\ [][FetchNext]_vars

FetchBatchSpecInit ==
  PoolInit /\ FetchBatchInit /\ IngestIdle /\ RankIdle /\ ChunkIdle /\ RetryIdle
    /\ StoreIdle /\ LazyIdle

FetchBatchSpec == FetchBatchSpecInit /\ [][FetchNext]_vars

IngestSpecInit == PoolInit /\ FetchIdle /\ IngestInit /\ RankIdle /\ ChunkIdle /\ RetryIdle
    /\ StoreIdle /\ LazyIdle

IngestSpec == IngestSpecInit /\ [][IngestNext]_vars

RankSpecInit == PoolInit /\ FetchIdle /\ IngestIdle /\ RankInit /\ ChunkIdle /\ RetryIdle
    /\ StoreIdle /\ LazyIdle

RankSpec == RankSpecInit /\ [][RankNext]_vars

ShuffleSpecInit ==
  PoolInit /\ FetchIdle /\ IngestIdle /\ ShuffleInit /\ ChunkIdle /\ RetryIdle
    /\ StoreIdle /\ LazyIdle

ShuffleSpec == ShuffleSpecInit /\ [][ShuffleNext]_vars

ChunkSpecInit == PoolInit /\ FetchIdle /\ IngestIdle /\ RankIdle /\ ChunkInit /\ RetryIdle
    /\ StoreIdle /\ LazyIdle

ChunkSpec == ChunkSpecInit /\ [][ChunkNext]_vars

StoreSpecInit ==
  PoolInit /\ FetchIdle /\ IngestIdle /\ RankIdle /\ ChunkIdle /\ RetryIdle
    /\ StoreInit /\ LazyIdle

StoreSpec == StoreSpecInit /\ [][StoreNext]_vars

LazySpecInit ==
  PoolInit /\ FetchIdle /\ IngestIdle /\ RankIdle /\ ChunkIdle /\ RetryIdle
    /\ StoreIdle /\ LazyInit

LazySpec == LazySpecInit /\ [][LazyNext]_vars

\* every call of the run and of the request returns or raises: the thread
\* that holds the source always takes its next step
SourceFairSpec == IngestSpecInit /\ [][SourceNext]_vars /\ WF_vars(SourceNext)

LifecycleSpec == IngestSpecInit /\ [][LifecycleNext]_vars

\* The interpreter schedules every runnable thread, get(timeout=1) returns
\* within a second, and a task body is taken to end (return or raise).
PoolFairness ==
  /\ WF_vars(WorkerStep)
  /\ WF_vars(TaskEnd)
  /\ WF_vars(\E t \in Tasks : SubmitPut(t))
  /\ WF_vars(StartSpawn)
  /\ WF_vars(StopSignal)
  /\ WF_vars(StopJoinClear)

FairSpec == Spec /\ PoolFairness

ObservedInit ==
  ObservedPoolInit /\ FetchIdle /\ IngestIdle /\ RankIdle /\ ChunkIdle /\ RetryIdle
    /\ StoreIdle /\ LazyIdle

ObservedFairSpec == ObservedInit /\ [][Next]_vars /\ PoolFairness

TypeOK ==
  /\ running \in BOOLEAN
  /\ LiveWorkers <= spawned

\* ------------------------------------------------------- pool claims
someRaised == \E u \in Tasks : outcome[u] = "raised"

\* C1: a task function that raises does not end its worker (the worker is back
\* at the loop head and the number of live workers is unchanged), and every
\* task submitted after the failure while the pool runs is accepted and, as
\* long as the pool stays running, eventually executed to completion.
C1_ExceptionContained ==
  /\ [][\A t \in Tasks :
          (outcome[t] # "raised" /\ outcome'[t] = "raised")
            => (LiveWorkers' = LiveWorkers /\ at_loop' = at_loop + 1)]_vars
  /\ [][\A t \in Tasks :
          (someRaised /\ running /\ tstate[t] = "new" /\ tstate'[t] # "new")
            => tstate'[t] = "checked"]_vars
  /\ \A t \in Tasks :
       []((someRaised /\ tstate[t] = "new")
            => [](tstate[t] = "accepted" => <>(outcome[t] # "none" \/ ~running)))

\* The same for a pool that no stop() has ever stopped.
C1_ContainedNeverStopped ==
  /\ [][\A t \in Tasks :
          (outcome[t] # "raised" /\ outcome'[t] = "raised")
            => (LiveWorkers' = LiveWorkers /\ at_loop' = at_loop + 1)]_vars
  /\ \A t \in Tasks :
       []((someRaised /\ tstate[t] = "new")
            => [](tstate[t] = "accepted" => <>(outcome[t] # "none" \/ everStopped)))

\* C2: submit_task on a pool that does not run returns False and leaves the
\* queue as it was; the rejected task is never on the queue and never executed.
C2_SubmitRejectedWhenStopped ==
  /\ [][\A t \in Tasks :
          (~running /\ tstate[t] = "new" /\ tstate'[t] # "new")
            => (tstate'[t] = "rejected" /\ task_queue' = task_queue)]_vars
  /\ [](\A t \in Tasks :
          tstate[t] = "rejected" => (t \notin QueueItems /\ invoked[t] = 0))

\* the pool accepted task 1, stop() stopped it, and task 2 was rejected
C2_Witness ==
  /\ tstate[1] = "accepted"
  /\ tstate[2] = "rejected"
  /\ everStopped

\* C3: every accepted task is dequeued by one worker and its function called
\* once, never twice or by two workers, and while the pool keeps running no
\* accepted task stays unexecuted.
C3_ExactlyOnce ==
  /\ [](\A t \in Tasks :
          /\ invoked[t] <= 1
          /\ executing[t] <= 1
          /\ (invoked[t] > 0 => tstate[t] = "accepted"))
  /\ \A t \in Tasks :
       [](tstate[t] = "accepted" => <>(invoked[t] = 1 \/ ~running))

\* The same for a pool that no stop() has ever stopped.
C3_ExactlyOnceNeverStopped ==
  /\ [](\A t \in Tasks :
          /\ invoked[t] <= 1
          /\ executing[t] <= 1
          /\ (invoked[t] > 0 => tstate[t] = "accepted"))
  /\ \A t \in Tasks :
       [](tstate[t] = "accepted" => <>(invoked[t] = 1 \/ everStopped))

\* C4: never more than num_workers live worker threads, hence never more than
\* num_workers tasks executing at once.
C4_WorkersBounded ==
  /\ LiveWorkers <= num_workers
  /\ SumOver(executing, Tasks) <= num_workers
\* ------------------------------------------------------- ingestion claims
\* C5: a run writes the status once, ready or failed, after all its
\* fetch and store steps; it never ends with no write or with two.
C5_StatusWrittenOnce ==
  /\ Len(StatusWrites) <= 1
  /\ ~late_step
  /\ ipc = "done" =>
       /\ Len(StatusWrites) = 1
       /\ StatusWrites[1].value \in {"ready", "failed"}

\* What does hold of the status calls of a run: update_source_status is called
\* only after all fetch and store steps, with ready or failed; at most one
\* call returns; a second call is made only when the first raised, and with
\* failed; a run in which no call raises ends with exactly one write.
StatusCallsAtEnd ==
  /\ Len(StatusWrites) <= 1
  /\ ~late_step
  /\ \A k \in DOMAIN status_calls : status_calls[k].value \in {"ready", "failed"}
  /\ Len(status_calls) <= 2
  /\ Len(status_calls) = 2 =>
       (~status_calls[1].ok /\ status_calls[2].value = "failed")
  /\ ipc = "done" =>
       /\ Len(status_calls) >= 1
       /\ (\A k \in DOMAIN status_calls : status_calls[k].ok) => Len(StatusWrites) = 1

\* C6: at the end of a run the source is failed when nothing was fetched or
\* store_transcript succeeded for none of the fetched transcripts, and ready
\* when it succeeded for at least one (stored, or found in the store
\* already), whatever the number of per-video errors.
C6_StatusPolicy ==
  ipc = "done" =>
    status = IF transcript_results.results = <<>> \/ Len(storage_results) = 0
             THEN "failed" ELSE "ready"

\* What does hold of the policy: the first update_source_status call of a run
\* carries the status of C6, and the source has it when that call returns.
StatusPolicyWhenReturned ==
  ipc = "done" =>
    /\ status_calls[1].value =
         (IF transcript_results.results = <<>> \/ Len(storage_results) = 0
          THEN "failed" ELSE "ready")
    /\ status_calls[1].ok => status = status_calls[1].value

\* ------------------------------------------------------- fetch claims
ResultIds == {results[k].video_id : k \in DOMAIN results}
ErrorIds == {errors[k].video_id : k \in DOMAIN errors}
Occurrences(seq, v) == Cardinality({k \in DOMAIN seq : seq[k] = v})
Entries(seq, v) == Cardinality({k \in DOMAIN seq : seq[k].video_id = v})
AllFetchesDone == \A i \in DOMAIN fut : fut[i] \in {"ok", "err"}

\* C7: on return every dispatched fetch has completed,
\* len(results) + len(errors) = len(video_ids), and no video_id is in both.
C7_FetchAccounting ==
  fpc = "returned" =>
    /\ AllFetchesDone
    /\ Len(results) + Len(errors) = Len(video_ids)
    /\ ResultIds \cap ErrorIds = {}

\* What does hold of the two lists: the counts, and a video_id is in both only
\* when it occurs more than once in video_ids.
FetchAccountingPerEntry ==
  fpc = "returned" =>
    /\ AllFetchesDone
    /\ Len(results) + Len(errors) = Len(video_ids)
    /\ \A v \in ResultIds \cap ErrorIds : Occurrences(video_ids, v) >= 2

\* C8: a failed fetch becomes one errors entry with its video_id, no exception
\* leaves fetch_multiple_transcripts, and every other fetch of the batch
\* completes and is reported with its own outcome.
C8_FailureIsolated ==
  /\ fpc # "raised"
  /\ fpc = "returned" =>
       /\ AllFetchesDone
       /\ \A v \in VideoIds :
            /\ Entries(errors, v) =
                 Cardinality({i \in DOMAIN fut : video_ids[i] = v /\ fut[i] = "err"})
            /\ Entries(results, v) =
                 Cardinality({i \in DOMAIN fut : video_ids[i] = v /\ fut[i] = "ok"})

\* a batch returned with one failure and the other fetches succeeded
C8_Witness ==
  /\ fpc = "returned"
  /\ Len(errors) = 1
  /\ Len(results) >= 2
\* ------------------------------------------------------- ranking claims
\* C9: ranking is idempotent: deduplicating, grouping and sorting the ranked
\* list again returns the same matches in the same order.
C9_RankIdempotent == rpc = "again" => ranked_again = ranked

\* a ranking of 4 matches with tied scores in which the floor kept the top 3
\* and changed their order
C9_Witness ==
  /\ rpc = "again"
  /\ Len(matches) = 4
  /\ FloorApplies(matches)
  /\ \E i, j \in DOMAIN ranked : i # j /\ ranked[i].score = ranked[j].score
  /\ \E i \in DOMAIN ranked : ranked[i] # matches[i]

\* the claimed overlap test: the shared span is more than 0.8 of the shorter
\* span
SharedSpan(a, b) ==
  Max(0, Min(a.end_time, b.end_time) - Max(a.start_time, b.start_time))
ShorterSpan(a, b) == Min(a.end_time - a.start_time, b.end_time - b.start_time)
OverlapsTooMuch(a, b) == 5 * SharedSpan(a, b) > 4 * ShorterSpan(a, b)

\* C10: in the output of _deduplicate_chunks any two kept matches of one
\* video overlap by at most 0.8 of the shorter span, unless the floor
\* replaced the deduplicated set by the top 3.
C10_DedupNoOverlap ==
  rpc \in {"ranked", "again"} =>
    \/ FloorApplies(matches)
    \/ \A i, j \in DOMAIN deduped :
         (i # j /\ deduped[i].video_id = deduped[j].video_id)
           => ~OverlapsTooMuch(deduped[i], deduped[j])

\* a match was dropped, three of one video were kept, no floor
C10_Witness ==
  /\ rpc = "ranked"
  /\ ~FloorApplies(matches)
  /\ Len(deduped) < Len(matches)
  /\ \E v \in VideoIds :
       Cardinality({i \in DOMAIN deduped : deduped[i].video_id = v}) >= 3
\* ------------------------------------------------------- chunker claims
ChunkSegments == [k \in DOMAIN chunk_list |-> chunk_list[k].segments]

\* C11: the segments lists of the returned chunks, concatenated in output
\* order, are the input sequence (every segment in exactly one chunk, order
\* kept), and every chunk holds at least one segment.
C11_ChunksPartition ==
  (cpc = "returned" /\ segments # <<>>) =>
    /\ Flatten(ChunkSegments) = segments
    /\ \A k \in DOMAIN chunk_list : chunk_list[k].segments # <<>>

\* What does hold: the same for transcripts without an empty segment text.
ChunksPartitionNoEmptyText ==
  (cpc = "returned" /\ \A i \in DOMAIN segments : segments[i].text # <<>>) =>
    /\ Flatten(ChunkSegments) = segments
    /\ \A k \in DOMAIN chunk_list : chunk_list[k].segments # <<>>

\* the characters of the texts of a chunk's segments, separators not counted
RECURSIVE TextLengths(_)
TextLengths(segs) ==
  IF segs = <<>> THEN 0 ELSE Len(Head(segs).text) + TextLengths(Tail(segs))

OverLong(segment) == Len(segment.text) > chunk_size

\* C12: the text of every returned chunk has at most chunk_size characters,
\* unless the chunk is a single segment whose own text is longer than
\* chunk_size; such a segment is alone in its chunk.
C12_ChunkLengthBounded ==
  (cpc = "returned" /\ segments # <<>>) =>
    \A k \in DOMAIN chunk_list :
      LET c == chunk_list[k] IN
        /\ \/ Len(c.text) <= chunk_size
           \/ Len(c.segments) = 1 /\ OverLong(c.segments[1])
        /\ (\E j \in DOMAIN c.segments : OverLong(c.segments[j])) => Len(c.segments) = 1

\* What does hold, for transcripts without an empty segment text: the texts
\* of a chunk's segments have together at most chunk_size characters (the
\* separating blanks not counted), unless the chunk is one over-long segment,
\* which is alone in its chunk.
ChunkSegmentTextsBounded ==
  (cpc = "returned" /\ \A i \in DOMAIN segments : segments[i].text # <<>>) =>
    \A k \in DOMAIN chunk_list :
      LET c == chunk_list[k] IN
        /\ \/ TextLengths(c.segments) <= chunk_size
           \/ Len(c.segments) = 1 /\ OverLong(c.segments[1])
        /\ (\E j \in DOMAIN c.segments : OverLong(c.segments[j])) => Len(c.segments) = 1

\* C19: chunk_transcript of an empty segment list fails with an error and
\* returns no chunk list, empty or partial.
C19_EmptyInputFails ==
  (segments = <<>> /\ cpc \notin {"idle", "call"}) =>
    (cpc = "raised" /\ chunk_list = <<>>)

\* a call with no segments has failed
C19_Witness == segments = <<>> /\ cpc = "raised"

\* ------------------------------------------------------- pool claims, continued
\* C13: after stop(), a task a worker is executing runs to completion, and a
\* task that was on the queue when stop() cleared the flag is never invoked.
C13_StopDiscardsQueued ==
  /\ \A t \in Tasks :
       []((everStopped /\ executing[t] > 0) => <>(outcome[t] # "none"))
  /\ [](\A t \in queued_at_stop : invoked[t] = 0)

\* C17: start() on a pool that runs already is a no-op: it creates no thread
\* and leaves the running flag, the worker list and the queue as they are;
\* threads are created only by a start() that found the pool not running.
C17_StartIdempotent ==
  /\ [][start_noop' # start_noop =>
          /\ running
          /\ UNCHANGED <<running, workers, task_queue, spawned, at_loop, at_get>>]_vars
  /\ [][starting' > starting => ~running]_vars
  /\ [][(spawned' # spawned \/ workers' > workers) => starting' < starting]_vars

\* a start() has returned at line 43 on the pool an earlier start() started
C17_Witness ==
  /\ start_noop
  /\ running
  /\ spawned = num_workers
  /\ workers = num_workers

\* C14: a source's status only ever moves from processing to ready or from
\* processing to failed; no step of the program changes a ready or failed status.
C14_StatusTerminal ==
  [][status' # status =>
       /\ status = "processing"
       /\ status' \in {"ready", "failed"}]_vars

\* what holds: ready is left by no step of the run or of a retry request
\* that is served alone
ReadyIsTerminal == [][status = "ready" => status' = "ready"]_vars

\* two matches of one video in the list query_videos returns that share more
\* than 0.8 of the shorter span
RankedOverlap ==
  \E i, j \in DOMAIN ranked :
    /\ i # j
    /\ ranked[i].video_id = ranked[j].video_id
    /\ OverlapsTooMuch(ranked[i], ranked[j])

\* C15 as stated: after ranking (deduplication, then grouping), no two matches
\* of one video in the returned list overlap by more than 0.8, for every input.
C15_RankedNoOverlap_AsStated == rpc \in {"ranked", "again"} => ~RankedOverlap

\* C15: after ranking (deduplication, then grouping), no two matches of one
\* video in the returned list overlap by more than 0.8, unless the walk kept
\* fewer than 3 of at least 3 matches and the top 3 by score were returned.
C15_RankedNoOverlap ==
  rpc \in {"ranked", "again"} => (FloorApplies(matches) \/ ~RankedOverlap)

\* matches of two videos, one dropped for its overlap, no floor, and the
\* grouping changed the order the deduplication returned
C15_Witness ==
  /\ rpc = "ranked"
  /\ ~FloorApplies(matches)
  /\ Len(ranked) < Len(matches)
  /\ ranked # deduped
  /\ \E i, j \in DOMAIN ranked : ranked[i].video_id # ranked[j].video_id
  /\ \E i, j \in DOMAIN matches :
       /\ i # j
       /\ matches[i].video_id = matches[j].video_id
       /\ OverlapsTooMuch(matches[i], matches[j])

\* a comes before b among the input matches: higher score, or equal score and
\* earlier in the input
RanksBefore(a, b) == a.score > b.score \/ (a.score = b.score /\ a.id < b.id)

\* the match of the input that k - 1 matches of the input come before
InputMatchOfRank(k) ==
  LET i == CHOOSE x \in DOMAIN matches :
             Cardinality({j \in DOMAIN matches :
                            RanksBefore(matches[j], matches[x])}) = k - 1
  IN  matches[i]

\* the 3 highest-scored input matches, ties by input order
TopOfInput == [k \in 1..MinKept |-> InputMatchOfRank(k)]

\* C20 as stated: when the input has at least 3 matches and the overlap walk
\* keeps fewer than 3, _deduplicate_chunks returns exactly the 3 highest-scored
\* input matches, ties by input order; its output has at least
\* min(3, len(input)) matches.
C20_SafetyFloor_AsStated ==
  rpc \in {"ranked", "again"} =>
    /\ FloorApplies(matches) => deduped = TopOfInput
    /\ Len(deduped) >= Min(MinKept, Len(matches))

\* C20: when the input has at least 3 matches and the overlap walk keeps fewer
\* than 3, _deduplicate_chunks returns exactly the 3 highest-scored input
\* matches, ties by input order; its output has at least 3 matches when the
\* input has at least 3, and at least 1 when the input is not empty.
C20_SafetyFloor ==
  rpc \in {"ranked", "again"} =>
    /\ FloorApplies(matches) => deduped = TopOfInput
    /\ Len(matches) >= MinKept => Len(deduped) >= MinKept
    /\ matches # <<>> => Len(deduped) >= 1

\* the floor applied to 4 matches, and a tie in score was decided by the
\* input order: of two equal matches one was returned and one was not
C20_Witness ==
  /\ rpc = "ranked"
  /\ Len(matches) = 4
  /\ FloorApplies(matches)
  /\ Len(DedupWalk(matches)) = 1
  /\ \E i, j \in DOMAIN matches :
       /\ i < j
       /\ matches[i].score = matches[j].score
       /\ \E k \in DOMAIN deduped : deduped[k] = matches[i]
       /\ \A k \in DOMAIN deduped : deduped[k] # matches[j]

\* C16: during a fetch_multiple_transcripts call the number of fetch_transcript
\* operations in flight never exceeds MAX_THREADS, however long the list is.
C16_InFlightBounded == InFlight <= MAX_THREADS

\* MAX_THREADS fetches are in flight and a further one waits for a thread
C16_Witness ==
  /\ Len(video_ids) > MAX_THREADS
  /\ InFlight = MAX_THREADS
  /\ \E i \in DOMAIN fut : fut[i] = "pending"

\* C18: stop() always returns, having cleared the flag and put one None per
\* worker on the queue, whether the workers finish or not; and a worker that
\* was idle or in a task when stop() cleared the flag eventually exits.
C18_StopTerminates ==
  /\ (stop_sig + stop_join > 0) ~> (stop_sig + stop_join = 0)
  /\ [][stop_join' > stop_join =>
          /\ ~running'
          /\ task_queue' = task_queue \o Repeat(NoneTask, num_workers)]_vars
  /\ [](old_worker[1] \in {"loop", "get", "task"} => <>(old_worker[1] = "exited"))

\* what holds: stop() returns, and the worker exits unless the pool is
\* started again before it has tested the flag
StopTerminatesUnlessRestarted ==
  /\ (stop_sig + stop_join > 0) ~> (stop_sig + stop_join = 0)
  /\ [](old_worker[1] \in {"loop", "get", "task"}
          => <>(old_worker[1] = "exited" \/ running))

\* the matches of the input the walk of lines 213-228 did not keep
Dropped == {i \in DOMAIN matches : \A k \in DOMAIN deduped : deduped[k] # matches[i]}

\* a positive-length span lying inside another
SpanInside(a, b) ==
  /\ a.start_time < a.end_time
  /\ b.start_time <= a.start_time
  /\ a.end_time <= b.end_time

\* match m is overlapped by more than 0.8 by a kept match of its video whose
\* score is higher or equal
CoveredByKept(m) ==
  \E k \in DOMAIN deduped :
    /\ deduped[k] # m
    /\ deduped[k].video_id = m.video_id
    /\ deduped[k].score >= m.score
    /\ OverlapsTooMuch(deduped[k], m)

\* C21 as stated: without the floor, a match is dropped if and only if a kept
\* match of its video with a higher or equal score overlaps it by more than
\* 0.8 of the shorter span; and a lower-scored match of positive length lying
\* inside a higher-scored match of its video is dropped.
C21_DroppedIffCovered_AsStated ==
  (rpc \in {"ranked", "again"} /\ ~FloorApplies(matches)) =>
    /\ \A i \in DOMAIN matches : (i \in Dropped) <=> CoveredByKept(matches[i])
    /\ \A i, j \in DOMAIN matches :
         (/\ matches[i].video_id = matches[j].video_id
          /\ matches[i].score < matches[j].score
          /\ SpanInside(matches[i], matches[j])) => i \in Dropped

\* C21: without the floor, a match is dropped if and only if a kept match of
\* its video with a higher or equal score overlaps it by more than 0.8 of the
\* shorter span; and a lower-scored match of positive length lying inside a
\* higher-scored kept match of its video is dropped.
C21_DroppedIffCovered ==
  (rpc \in {"ranked", "again"} /\ ~FloorApplies(matches)) =>
    /\ \A i \in DOMAIN matches : (i \in Dropped) <=> CoveredByKept(matches[i])
    /\ \A i, j \in DOMAIN matches :
         (/\ matches[i].video_id = matches[j].video_id
          /\ matches[i].score < matches[j].score
          /\ j \notin Dropped
          /\ SpanInside(matches[i], matches[j])) => i \in Dropped

\* no floor; a match inside a higher-scored kept match of its video was
\* dropped, and a match of the other video over the same span was kept
C21_Witness ==
  /\ rpc = "ranked"
  /\ ~FloorApplies(matches)
  /\ \E i, j, k \in DOMAIN matches :
       /\ i \in Dropped /\ j \notin Dropped /\ k \notin Dropped
       /\ matches[i].video_id = matches[j].video_id
       /\ matches[i].score < matches[j].score
       /\ SpanInside(matches[i], matches[j])
       /\ matches[k].video_id # matches[i].video_id
       /\ matches[k].start_time = matches[i].start_time
       /\ matches[k].end_time = matches[i].end_time

\* out holds the matches of in, each once and as they were
IsPermutation(in, out) ==
  /\ Len(out) = Len(in)
  /\ \A i \in DOMAIN in :
       Cardinality({j \in DOMAIN out : out[j] = in[i]})
         = Cardinality({j \in DOMAIN in : in[j] = in[i]})

\* the matches of one video stand together in out
VideoBlocks(out) ==
  \A i, j, k \in DOMAIN out :
    (i < j /\ j < k /\ out[i].video_id = out[k].video_id)
      => out[j].video_id = out[i].video_id

\* within a video the matches stand by ascending start_time
BlocksChronological(out) ==
  \A i, j \in DOMAIN out :
    (i < j /\ out[i].video_id = out[j].video_id)
      => out[i].start_time <= out[j].start_time

\* a video standing before another has a maximum score at least as high
BlocksByMaxScore(out) ==
  \A i, j \in DOMAIN out :
    (i < j /\ out[i].video_id # out[j].video_id) =>
      \E a \in DOMAIN out :
        /\ out[a].video_id = out[i].video_id
        /\ \A b \in DOMAIN out :
             out[b].video_id = out[j].video_id => out[a].score >= out[b].score

GroupedAndSorted(in, out) ==
  /\ IsPermutation(in, out)
  /\ VideoBlocks(out)
  /\ BlocksChronological(out)
  /\ BlocksByMaxScore(out)

DistinctScores(chunks) ==
  \A i, j \in DOMAIN chunks : i # j => chunks[i].score # chunks[j].score

\* the input with every tie in score decided by the input order: the match
\* that k others come before gets the score Len(matches) - k
TiesDecided ==
  [i \in DOMAIN matches |->
     [matches[i] EXCEPT !.score =
        Len(matches) - Cardinality({j \in DOMAIN matches :
                                      RanksBefore(matches[j], matches[i])})]]

Ids(chunks) == [k \in DOMAIN chunks |-> chunks[k].id]

\* C26: two lists holding the same matches with pairwise distinct scores, in
\* any two orders, are ranked to the same list; and with ties the output is the
\* one of the input whose ties are decided by the input order.
C26_Deterministic ==
  /\ (rpc = "shuffled" /\ DistinctScores(matches)) => ranked_again = ranked
  /\ rpc = "ranked" =>
       Ids(ranked) = Ids(group_and_sort_chunks(deduplicate_chunks(TiesDecided)))

\* four matches of two videos with distinct scores were ranked in the reverse
\* order of the first query, one of them was dropped, and the outputs agree
C26_Witness ==
  /\ rpc = "shuffled"
  /\ Len(matches) = 4
  /\ DistinctScores(matches)
  /\ shuffled = [i \in DOMAIN matches |-> matches[5 - i]]
  /\ Len(ranked) = 3
  /\ \E i, j \in DOMAIN ranked : ranked[i].video_id # ranked[j].video_id
  /\ ranked_again = ranked

\* with ties the order of the input matters: the same matches in another
\* order are ranked to another list
TiesDependOnOrder ==
  /\ rpc = "shuffled"
  /\ ~DistinctScores(matches)
  /\ ranked_again # ranked

\* the segments come by ascending start
OrderedByStart ==
  \A i, j \in DOMAIN segments : i < j => segments[i].start <= segments[j].start

\* no segment ends after the next one starts
SegmentsDisjoint ==
  \A i \in DOMAIN segments :
    i < Len(segments) => segments[i].start + segments[i].duration <= segments[i + 1].start

\* a chunk starts with its first segment and ends with its last
ChunkTimesFromSegments ==
  \A k \in DOMAIN chunk_list :
    LET c == chunk_list[k] IN
      /\ c.segments # <<>>
      /\ c.start_time = c.segments[1].start
      /\ c.end_time = c.segments[Len(c.segments)].start
                        + c.segments[Len(c.segments)].duration
      /\ c.end_time >= c.start_time

\* no chunk ends after the next one starts
ChunksFollowInTime ==
  \A k \in DOMAIN chunk_list :
    k < Len(chunk_list) => chunk_list[k].end_time <= chunk_list[k + 1].start_time

\* C23: for a non-empty segment list ordered by start, every returned chunk
\* starts at the start of its first segment and ends at start + duration of
\* its last, so end_time >= start_time, and no chunk ends after the next starts.
C23_ChunkTimes ==
  (cpc = "returned" /\ OrderedByStart) =>
    /\ ChunkTimesFromSegments
    /\ ChunksFollowInTime

\* what holds: the times of each chunk for every ordered list, and the order
\* of the chunks when no segment ends after the next one starts
ChunkTimesWhenDisjoint ==
  (cpc = "returned" /\ OrderedByStart) =>
    /\ ChunkTimesFromSegments
    /\ SegmentsDisjoint => ChunksFollowInTime

\* C24: once storing a video of the source has failed in store_transcript
\* (the embedding raised), the run stores no further video and the source
\* ends with status failed.
C24_EmbeddingFailureFatal ==
  /\ [][storage_errors # <<>> =>
          /\ vstore' = vstore
          /\ storage_results' = storage_results
          /\ idx' = idx]_vars
  /\ [](ipc = "done" /\ storage_errors # <<>> => status = "failed")

\* what holds: a run in which every store_transcript call failed ends with
\* failed, unless the status sink failed too
AllStoresFailedIsFailed ==
  (ipc = "done" /\ storage_results = <<>> /\ storage_errors # <<>>
     /\ \A k \in DOMAIN status_calls : status_calls[k].ok)
    => status = "failed"

\* C25: the exists-check and the upsert of store_transcript are separate
\* steps: a task upserts only after its own video_exists returned False, every
\* upsert is counted, and nothing else orders two tasks, so that both can find
\* the video absent and both upsert it (C25_Witness).
C25_UpsertAfterOwnCheck ==
  /\ \A k \in Sources : st_pc[k] = "stored" => st_saw[k] \in {"absent", "error"}
  /\ \A k \in Sources : st_saw[k] = "exists" => st_pc[k] = "exists"
  /\ \A v \in VideoIds :
       upserts[v] = Cardinality({k \in Sources : st_pc[k] = "stored" /\ st_video[k] = v})
  /\ \A v \in VideoIds : upserts[v] > 0 => v \in index_has

\* two tasks of two sources with the same video both found no vector of it
\* and both upserted it
C25_Witness ==
  /\ st_video[1] = st_video[2]
  /\ \A k \in Sources : st_saw[k] = "absent" /\ st_pc[k] = "stored"
  /\ upserts[st_video[1]] = 2

\* not an invariant: each video is upserted at most once
UpsertedAtMostOnce == \A v \in VideoIds : upserts[v] <= 1

\* C27: of the callers of get_background_processor exactly one constructs a
\* BackgroundProcessor, every caller gets that instance, running, and no
\* submit_background_task returns False.
C27_LazyCreationAtomic ==
  /\ created <= 1
  /\ \A c \in Callers :
       call_pc[c] \in {"have", "accepted", "rejected"} =>
         /\ call_proc[c] = gp
         /\ prunning[call_proc[c]]
  /\ \A c \in Callers : call_pc[c] # "rejected"


\* not an invariant: no caller is refused by a pool that is bound to the
\* global and not started yet
NoSubmitRejected == \A c \in Callers : call_pc[c] # "rejected"

\* some stop() has cleared the flag and returned, and no start() is under way
StoppedQuiet ==
  /\ everStopped
  /\ ~running
  /\ starting = 0
  /\ stop_sig = 0
  /\ stop_join = 0

\* C28: after a stop() and a start() that follows it the pool has its
\* num_workers live workers again (no signal left by the stop() makes a
\* worker of the restarted pool leave), and every task the restarted pool
\* accepts is eventually executed.
C28_RestartRestoresPool ==
  /\ [](StoppedQuiet => []((running /\ starting = 0) => LiveWorkers >= num_workers))
  /\ \A t \in Tasks :
       []((StoppedQuiet /\ tstate[t] = "new")
            => [](tstate[t] = "accepted" => <>(invoked[t] > 0 \/ ~running)))

\* what holds: the start() after a stop() sets the flag and creates
\* num_workers new threads
RestartSpawnsWorkers ==
  [][(StoppedQuiet /\ running')
       => (spawned' = spawned + num_workers /\ workers' = num_workers
             /\ at_loop' = at_loop + num_workers)]_vars

\* C29: every source that process_videos registered leaves processing and
\* reaches ready or failed, whether its task was accepted or refused, when
\* every call returns or raises.
C29_SourceLeavesProcessing ==
  [](status = "processing" => <>(status \in {"ready", "failed"}))

\* what holds: the run or the request ends, and a source is left in
\* processing only when every status write that was tried raised
StuckOnlyWhenSinkFails ==
  /\ <>(ipc = "done")
  /\ [](ipc = "done" /\ status = "processing"
          => /\ status_calls # <<>>
             /\ \A i \in 1..Len(status_calls) : ~status_calls[i].ok)
====
